---- MODULE Spec2Model ----
(***************************************************************************)
(* Model of yiddish_wordlist/main.py: the tokenizer (initialize_wordlist), *)
(* the two dictionary-lookup phases (wiktionary_definition and             *)
(* kentucky_definition with _get_word_from_kentucky) and the orchestrator  *)
(* (main).  Texts are sequences of one-character strings.                  *)
(***************************************************************************)
EXTENDS Integers, Sequences, FiniteSets, TLC

VARIABLES text, dictionaries, browserAvailable, wiktSite, kySite,
          pc, wordlist, keys, wiktLookups, kyLookups, browser, sessions, error,
          page, lookup

vars == <<text, dictionaries, browserAvailable, wiktSite, kySite,
          pc, wordlist, keys, wiktLookups, kyLookups, browser, sessions, error,
          page, lookup>>

\* ------------------------------------------------------------------------
\* Bounds
MaxTextLen == 5
MaxPipeTextLen == 3
MaxGm == 2

\* ------------------------------------------------------------------------
\* Python str / list primitives on sequences of characters

None == <<"#None">>

Range(s) == {s[i] : i \in 1..Len(s)}

SeqsUpTo(S, n) == UNION {[1..k -> S] : k \in 0..n}

\* s.replace(old, new) for a single character old
ReplaceChar(s, old, new) == [i \in 1..Len(s) |-> IF s[i] = old THEN new ELSE s[i]]

\* s.translate(str.maketrans(x, x, deleted)): delete every character of deleted
Translate(s, deleted) == SelectSeq(s, LAMBDA c : c \notin deleted)

\* s.replace(c, empty string)
DeleteChar(s, c) == Translate(s, {c})

RECURSIVE SplitFrom(_, _, _, _)
SplitFrom(s, sep, i, cur) ==
    IF i > Len(s) THEN <<cur>>
    ELSE IF s[i] = sep THEN <<cur>> \o SplitFrom(s, sep, i + 1, <<>>)
    ELSE SplitFrom(s, sep, i + 1, Append(cur, s[i]))

\* s.split(sep) for a single character sep: empty pieces are kept
Split(s, sep) == SplitFrom(s, sep, 1, <<>>)

Whitespace == {" ", "NL", "TAB", "NBSP"}

RECURSIVE LStrip(_)
LStrip(s) == IF s # <<>> /\ Head(s) \in Whitespace THEN LStrip(Tail(s)) ELSE s

RECURSIVE RStrip(_)
RStrip(s) ==
    IF s # <<>> /\ s[Len(s)] \in Whitespace THEN RStrip(SubSeq(s, 1, Len(s) - 1)) ELSE s

\* s.strip()
Strip(s) == LStrip(RStrip(s))

\* s.startswith(p)
StartsWith(s, p) == Len(p) <= Len(s) /\ SubSeq(s, 1, Len(p)) = p

\* sub in s
Contains(s, sub) ==
    \E i \in 0..(Len(s) - Len(sub)) : SubSeq(s, i + 1, i + Len(sub)) = sub

\* ------------------------------------------------------------------------
\* initialize_wordlist

AsciiPunctuation ==
    {"!", "DQUOTE", "#", "$", "%", "&", "'", "(", ")", "*", "+", ",", "-", ".",
     "/", ":", ";", "<", "=", ">", "?", "@", "[", "BACKSLASH", "]", "^", "_", "BACKTICK",
     "{", "|", "}", "~"}

\* punct = string.punctuation + em-dash + two curly quotes
Punct == AsciiPunctuation \cup {"EMDASH", "LDQUOTE", "LOW9DQUOTE"}

Digits == {"0", "1", "2", "3", "4", "5", "6", "7", "8", "9"}

\* the three stripping passes of lines 215-220
StripText(t) == Translate(Translate(ReplaceChar(t, "NL", " "), Punct), Digits)

\* the non-empty pieces of text.split on a single space
Tokens(t) == SelectSeq(Split(StripText(t), " "), LAMBDA tok : tok # <<>>)

RECURSIVE RStripNul(_)
RStripNul(s) ==
    IF s # <<>> /\ s[Len(s)] = "NUL" THEN RStripNul(SubSeq(s, 1, Len(s) - 1)) ELSE s

\* np.array(list of str): a fixed-width unicode array; an element read back
\* from it has lost its trailing NUL characters
NpArray(toks) == [i \in 1..Len(toks) |-> RStripNul(toks[i])]

RECURSIVE WhereFrom(_, _, _)
WhereFrom(arr, t, i) ==
    IF i > Len(arr) THEN <<>>
    ELSE IF arr[i] = t THEN <<i - 1>> \o WhereFrom(arr, t, i + 1)
    ELSE WhereFrom(arr, t, i + 1)

\* only the first position of t
NpWhereFirst(arr, t) ==
    IF WhereFrom(arr, t, 1) = <<>> THEN <<>> ELSE <<Head(WhereFrom(arr, t, 1))>>

\* np.where(text == t)[0].tolist(): 0-based positions, ascending
NpWhere(arr, t) == WhereFrom(arr, t, 1)

NoWikt == [has |-> FALSE, val |-> <<>>]
NoKy == [has |-> FALSE, val |-> <<>>]

WordEntry(arr, t) ==
    [index |-> NpWhere(arr, t),
     count |-> Len(NpWhere(arr, t)),
     frequency |-> <<Len(NpWhere(arr, t)), Len(arr)>>,
     wiktionary |-> NoWikt,
     kentucky |-> NoKy]

initialize_wordlist(t) ==
    LET arr == NpArray(Tokens(t))
    IN [w \in Range(arr) |-> WordEntry(arr, w)]

\* the outcome of an expression: a value or the exception it raises
Raised(kind) == [ok |-> FALSE, val |-> None, err |-> kind]
Value(v) == [ok |-> TRUE, val |-> v, err |-> "none"]

\* ------------------------------------------------------------------------
\* wiktionary_definition: normalisation of what parser.fetch returns.
\* An entry is [pronunciations, definitions]; pronunciations is a dict that
\* has a 'text' key or not; a definition is [text |-> list of lines], the
\* first line being the header.  The middle dot, the no-break space and the
\* words "plural" and "participle" are single symbols of a line.

RECURSIVE ReplacePair(_, _, _, _)
\* s.replace(ab, new) for a two-character ab
ReplacePair(s, a, b, new) ==
    IF Len(s) < 2 THEN s
    ELSE IF s[1] = a /\ s[2] = b
         THEN new \o ReplacePair(SubSeq(s, 3, Len(s)), a, b, new)
    ELSE <<s[1]>> \o ReplacePair(Tail(s), a, b, new)

\* lines 44-60 on one definition; IndexError when the text list is empty or
\* the header has no middle dot
NormalizeDefinition(defi) ==
    IF Len(defi.text) = 0 THEN Raised("IndexError")
    ELSE LET txt == defi.text[1]
         IN IF Len(Split(txt, "DOT")) < 2 THEN Raised("IndexError")
            ELSE Value(
                [text |-> Tail(defi.text),
                 lexeme |-> Strip(Split(txt, "DOT")[1]),
                 transliteration |->
                     Strip(DeleteChar(Split(Split(txt, "DOT")[2], ")")[1], "(")),
                 gender |-> IF Contains(txt, <<"NBSP">>)
                            THEN Split(Split(txt, "NBSP")[2], ",")[1] ELSE None,
                 plural |-> IF Contains(txt, <<"plural">>)
                            THEN Strip(Split(txt, "plural")[2]) ELSE None,
                 participle |-> IF Contains(txt, <<"participle">>)
                                THEN Strip(ReplacePair(Split(txt, "participle")[2],
                                                       ")", ")", <<")">>))
                                ELSE None])

\* lines 40-62 on one entry; KeyError when pronunciations has no 'text'
NormalizeEntry(wi) ==
    IF ~wi.pronunciations.hasText THEN Raised("KeyError")
    ELSE IF \E i \in 1..Len(wi.definitions) : ~NormalizeDefinition(wi.definitions[i]).ok
    THEN Raised("IndexError")
    ELSE LET defs == [i \in 1..Len(wi.definitions) |->
                         NormalizeDefinition(wi.definitions[i]).val]
             translits == [i \in 1..Len(defs) |-> defs[i].transliteration]
         IN Value(
             [pronunciations |-> wi.pronunciations.text,
              transliteration |->
                  IF Cardinality(Range(translits)) = 1
                  THEN [scalar |-> translits[1]] ELSE [list |-> translits],
              definitions |->
                  [i \in 1..Len(defs) |->
                      [text |-> defs[i].text, lexeme |-> defs[i].lexeme,
                       gender |-> defs[i].gender, plural |-> defs[i].plural,
                       participle |-> defs[i].participle]]])

\* the first exception of the loop of line 39 over the fetched entries
NormalizeError(wikt) ==
    IF \E i \in 1..Len(wikt) : ~NormalizeEntry(wikt[i]).ok
    THEN NormalizeEntry(wikt[CHOOSE i \in 1..Len(wikt) :
                                /\ ~NormalizeEntry(wikt[i]).ok
                                /\ \A j \in 1..(i - 1) : NormalizeEntry(wikt[j]).ok]).err
    ELSE "none"

\* the list stored at line 63
Normalized(wikt) == [i \in 1..Len(wikt) |-> NormalizeEntry(wikt[i]).val]

\* wordlist[word] = {'wiktionary': wikt}: the entry is replaced
ReplaceByWiktionary(wl, word, wikt) ==
    [wl EXCEPT ![word] = [index |-> <<>>, count |-> 0, frequency |-> <<0, 1>>,
                          wiktionary |-> [has |-> TRUE, val |-> wikt],
                          kentucky |-> [has |-> FALSE, val |-> <<>>]]]

\* line 63: wordlist[word]['wiktionary'] = wikt
AttachWiktionary(wl, word, wikt) ==
    [wl EXCEPT ![word].wiktionary = [has |-> TRUE, val |-> wikt]]

\* line 188: wordlist[word]['kentucky'] = ...
AttachKentucky(wl, word, ky) ==
    [wl EXCEPT ![word].kentucky = [has |-> TRUE, val |-> ky]]

\* ------------------------------------------------------------------------
\* The parsed page (BeautifulSoup tree) as _get_word_from_kentucky queries it.
\* A node is what next_sibling / previous_sibling can return: nothing, a
\* string, or a tag with or without a class attribute.  The words "plural"
\* and "gender" are single symbols of a text.

NoNode == [kind |-> "none", classes |-> None, text |-> <<>>]
StringNode(t) == [kind |-> "string", classes |-> None, text |-> t]
TagNode(cls, t) == [kind |-> "tag", classes |-> cls, text |-> t]

NoGrammar == [found |-> FALSE, text |-> <<>>, next |-> NoNode, next2 |-> NoNode]
GrammarSpan(t, n1, n2) == [found |-> TRUE, text |-> t, next |-> n1, next2 |-> n2]

NoParticiple == [found |-> FALSE, next |-> NoNode]
ParticipleSpan(n) == [found |-> TRUE, next |-> n]

\* An element that can become an entry container: the answers of its find()
\* calls.  lexeme / definition / laterGender are None when find returns None.
Element(lex, gram, part, gdr, defi) ==
    [lexeme |-> lex, grammar |-> gram, participle |-> part,
     laterGender |-> gdr, definition |-> defi]

\* line 122: entr.find('span', 'lexeme').text.replace('(', '').strip()
LexemeOf(e) ==
    IF e.lexeme = None THEN Raised("AttributeError")
    ELSE Value(Strip(DeleteChar(e.lexeme, "(")))

\* lines 124-131: part of speech, None on AttributeError
PartOfSpeechOf(e) ==
    IF ~e.grammar.found THEN Value(None)
    ELSE LET pos == Split(e.grammar.text, ",")[1]
         IN IF ~StartsWith(pos, <<"plural">>) /\ ~StartsWith(pos, <<"gender">>)
            THEN Value(Strip(pos))
            ELSE Value(None)

\* lines 132-141: plural; IndexError and AttributeError give None, a KeyError
\* (no class attribute) or a TypeError (next sibling is a tag) propagates
PluralOf(e) ==
    LET g == e.grammar
    IN IF ~g.found THEN Value(None)
       ELSE IF ~StartsWith(g.text, <<"plural">>) /\ Len(Split(g.text, ",")) < 2
            THEN Value(None)
       ELSE IF g.next.kind = "none" THEN Value(None)
       ELSE IF g.next.kind = "tag" THEN Raised("TypeError")
       ELSE LET plural_text == Strip(DeleteChar(Split(g.next.text, ",")[1], "("))
            IN IF g.next2.kind # "tag" THEN Value(None)
               ELSE IF g.next2.classes = None THEN Raised("KeyError")
               ELSE IF g.next2.classes = <<"hebrew">>
                    THEN Value(plural_text \o <<" ", "(">> \o g.next2.text \o <<")">>)
               ELSE Value(plural_text)

\* lines 142-146: participle; part.next_sibling may be None
ParticipleOf(e) ==
    IF ~e.participle.found THEN Value(None)
    ELSE IF e.participle.next.kind = "none" THEN Raised("AttributeError")
    ELSE Value(Strip(DeleteChar(e.participle.next.text, ",")))

\* line 147: the first grammar span whose string matches gender.*
GenderSpanOf(e) ==
    IF e.grammar.found /\ Contains(e.grammar.text, <<"gender">>) THEN e.grammar.text
    ELSE e.laterGender

\* lines 147-151
GenderOf(e) ==
    IF GenderSpanOf(e) = None THEN Value(None)
    ELSE Value(Strip(DeleteChar(DeleteChar(GenderSpanOf(e), ","), "gender")))

\* line 152: entr.find('span', 'definition').text
DefinitionOf(e) ==
    IF e.definition = None THEN Raised("AttributeError") ELSE Value(e.definition)

\* the first exception the loop body of lines 121-151 raises on one entry
LoopError(e) ==
    IF ~LexemeOf(e).ok THEN LexemeOf(e).err
    ELSE IF ~PluralOf(e).ok THEN PluralOf(e).err
    ELSE IF ~ParticipleOf(e).ok THEN ParticipleOf(e).err
    ELSE "none"

\* the 6-tuple of line 155: (pos, defi, gdr, part, pl, lex)
EntryTuple(e) ==
    <<PartOfSpeechOf(e).val, DefinitionOf(e).val, GenderOf(e).val,
      ParticipleOf(e).val, PluralOf(e).val, LexemeOf(e).val>>

\* line 158: dict(zip([...], word))
DefinitionRecord(t) ==
    [partOfSpeech |-> t[1], text |-> t[2], gender |-> t[3],
     participle |-> t[4], plural |-> t[5], lexeme |-> t[6]]

\* ------------------------------------------------------------------------
\* _get_word_from_kentucky on a page.
\* page.translPrev3 / page.stemPrev3 describe the third previous sibling of
\* the first grammar / goodmatch span: "NoSpan" (find returned None), "Broken"
\* (a nearer previous sibling is None), "None", "Label" (the expected label
\* string) or "Other".  hasConverting / hasBaseLabel tell whether
\* soup.find(string=label) finds the label anywhere on the page.
\* A goodmatch span of the entry list is [stemInParent, parentIsLexeme,
\* parent, grand].

NoError == [kind |-> "none", msg |-> "none", word |-> None]

KyError(kind, m) == [kind |-> kind, msg |-> m, word |-> None]

\* lines 96 and 98: "ok", or the exception the assert statement ends with
AssertLabel(prev3, hasLabel) ==
    IF prev3 \in {"NoSpan", "Broken"} THEN "AttributeError"
    ELSE IF (hasLabel /\ prev3 = "Label") \/ (~hasLabel /\ prev3 = "None") THEN "ok"
    ELSE "AssertionError"

\* lines 104-107: the goodmatch spans surviving both filters
SurvivingMatches(p) ==
    SelectSeq(p.gms, LAMBDA gm : gm.stemInParent /\ gm.parentIsLexeme)

\* lines 108-115
EntriesOf(p) ==
    IF Len(SurvivingMatches(p)) = 0
    THEN [i \in 1..Len(p.gms) |-> p.gms[i].parent]
    ELSE SelectSeq([i \in 1..Len(SurvivingMatches(p)) |-> SurvivingMatches(p)[i].grand],
                   LAMBDA entr : Contains(Strip(DeleteChar(entr.lexeme, "(")), p.stem))

\* line 113 raises when a surviving candidate's grandparent has no lexeme span
EntriesError(p) ==
    IF \E i \in 1..Len(SurvivingMatches(p)) : SurvivingMatches(p)[i].grand.lexeme = None
    THEN "AttributeError" ELSE "none"

\* the exception of the extraction loop (lines 121-151) and of line 152
ExtractionError(entries) ==
    IF \E i \in 1..Len(entries) : LoopError(entries[i]) # "none"
    THEN LoopError(entries[CHOOSE i \in 1..Len(entries) :
                              /\ LoopError(entries[i]) # "none"
                              /\ \A j \in 1..(i - 1) : LoopError(entries[j]) = "none"])
    ELSE IF \E i \in 1..Len(entries) : ~DefinitionOf(entries[i]).ok
    THEN "AttributeError"
    ELSE "none"

\* the lists a set can be iterated into
ListsOf(S) == {l \in [1..Cardinality(S) -> S] : Range(l) = S}

\* the zipped tuples as they are, without set()
KeepAllDefinitions(tuples) == {tuples}

\* lines 155-159: set([...]) of the zipped tuples, iterated in some order
UniqueDefinitions(tuples) == ListsOf(Range(tuples))

Failure(kind, m, entries) ==
    [status |-> "raised", error |-> KyError(kind, m), entries |-> entries,
     extracted |-> <<>>, transliteration |-> None, stem |-> None, deflists |-> {}]

AssertMsg == "Can't find transliteration!"

_get_word_from_kentucky(p) ==
    IF AssertLabel(p.translPrev3, p.hasConverting) # "ok"
    THEN Failure(AssertLabel(p.translPrev3, p.hasConverting),
                 IF AssertLabel(p.translPrev3, p.hasConverting) = "AssertionError"
                 THEN AssertMsg ELSE "previous_sibling", <<>>)
    ELSE IF AssertLabel(p.stemPrev3, p.hasBaseLabel) # "ok"
    THEN Failure(AssertLabel(p.stemPrev3, p.hasBaseLabel),
                 IF AssertLabel(p.stemPrev3, p.hasBaseLabel) = "AssertionError"
                 THEN AssertMsg ELSE "previous_sibling", <<>>)
    ELSE IF ~p.hasUl THEN Failure("AttributeError", "find_all", <<>>)
    ELSE IF EntriesError(p) # "none" THEN Failure(EntriesError(p), "text", <<>>)
    ELSE LET entries == EntriesOf(p)
         IN IF ExtractionError(entries) # "none"
            THEN Failure(ExtractionError(entries), "extraction", entries)
            ELSE LET tuples == [i \in 1..Len(entries) |-> EntryTuple(entries[i])]
                 IN [status |-> "returned", error |-> NoError, entries |-> entries,
                     extracted |-> tuples,
                     transliteration |-> p.transl, stem |-> p.stem,
                     deflists |-> UniqueDefinitions(tuples)]

\* the returned dict ky, its definitions listed in the order defs
KyRecord(res, defs) ==
    [transliteration |-> res.transliteration, stem |-> res.stem,
     definitions |-> [i \in 1..Len(defs) |-> DefinitionRecord(defs[i])]]

\* ------------------------------------------------------------------------
\* Pages the dictionary site can answer with

StemText == <<"a">>
TranslText == <<"t">>

HebrewTag == TagNode(<<"hebrew">>, <<"h">>)
PluralString == StringNode(<<" ", "(", "x", ",">>)

BaseGrammar == GrammarSpan(<<"n", ",">>, PluralString, HebrewTag)

BaseElement ==
    Element(<<"(", "a", " ">>, BaseGrammar, NoParticiple, None, <<"d">>)

GrammarTexts == {<<"n">>, <<"n", ",">>, <<"plural">>, <<"gender", " ", "m", ",">>}

SiblingPairs ==
    {<<NoNode, NoNode>>, <<TagNode(None, <<"s">>), NoNode>>}
    \cup {<<PluralString, n2>> :
            n2 \in {NoNode, StringNode(<<"s">>), TagNode(None, <<"s">>),
                    HebrewTag, TagNode(<<"other">>, <<"s">>)}}

Grammars ==
    {NoGrammar} \cup {GrammarSpan(t, sp[1], sp[2]) : t \in GrammarTexts, sp \in SiblingPairs}

\* BaseElement with one of its find() answers changed
Elements ==
    {[BaseElement EXCEPT !.lexeme = x] : x \in {None, <<"b">>, <<"(", "a", " ">>}}
    \cup {[BaseElement EXCEPT !.grammar = g] : g \in Grammars}
    \cup {[BaseElement EXCEPT !.participle = x] :
            x \in {ParticipleSpan(NoNode), ParticipleSpan(StringNode(<<" ", "p", ",">>))}}
    \cup {[BaseElement EXCEPT !.laterGender = <<"gender", " ", "f", ",">>]}
    \cup {[BaseElement EXCEPT !.definition = x] : x \in {None, <<"e">>}}

\* the elements of the pages with several goodmatch spans
FewElements ==
    {BaseElement, [BaseElement EXCEPT !.definition = <<"e">>],
     [BaseElement EXCEPT !.lexeme = <<"b">>]}

\* a parent tagged lexeme is a lexeme span below the grandparent
GoodMatches(parents, grands) ==
    {gm \in [stemInParent : BOOLEAN, parentIsLexeme : BOOLEAN,
             parent : parents, grand : grands] :
        gm.parentIsLexeme => gm.grand.lexeme # None}

Prev3Kinds == {"NoSpan", "Broken", "None", "Label", "Other"}

PageOf(tp, hc, sp, hb, ul, gms) ==
    [translPrev3 |-> tp, hasConverting |-> hc, transl |-> TranslText,
     stemPrev3 |-> sp, hasBaseLabel |-> hb, stem |-> StemText,
     hasUl |-> ul, gms |-> gms]

BaseGm == [stemInParent |-> TRUE, parentIsLexeme |-> TRUE,
           parent |-> BaseElement, grand |-> BaseElement]

\* every shape of the two label chains: the label string found by
\* soup.find(string=...) exists when it is a sibling of the span
HeaderShapes ==
    {h \in [tp : Prev3Kinds, hc : BOOLEAN, sp : Prev3Kinds, hb : BOOLEAN] :
        /\ h.tp = "Label" => h.hc
        /\ h.sp = "Label" => h.hb}

\* a page without any grammar or goodmatch span has no entries
HeaderPages ==
    {PageOf(h.tp, h.hc, h.sp, h.hb, TRUE,
            IF h.tp = "NoSpan" \/ h.sp = "NoSpan" THEN <<>> ELSE <<BaseGm>>) :
        h \in HeaderShapes}

\* pages that keep the markup contract, with every shape of entry list
BodyPages ==
    {PageOf("Label", TRUE, "Label", TRUE, FALSE, <<>>)}
    \cup {PageOf("Label", TRUE, "Label", TRUE, TRUE, <<gm>>) :
            gm \in GoodMatches(Elements, {BaseElement})
                   \cup GoodMatches({BaseElement}, Elements)}
    \cup {PageOf("Label", TRUE, "Label", TRUE, TRUE, gms) :
            gms \in UNION {[1..k -> GoodMatches(FewElements, FewElements)] : k \in 0..MaxGm}}

Pages == HeaderPages \cup BodyPages

\* ------------------------------------------------------------------------
\* Extractor specification: _get_word_from_kentucky applied to every page

NoLookup == [status |-> "none"]
NoPage == [kind |-> "none"]

IdleRest ==
    /\ dictionaries = {}
    /\ browserAvailable = TRUE
    /\ wiktSite = <<>>
    /\ kySite = <<>>
    /\ keys = <<>>
    /\ wiktLookups = <<>>
    /\ kyLookups = <<>>
    /\ browser = "none"
    /\ sessions = 0
    /\ error = NoError

NoKyVal == [transliteration |-> None, stem |-> None, definitions |-> <<>>]

InitKy ==
    /\ page \in Pages
    /\ pc = "ky_call"
    /\ lookup = NoLookup
    /\ text = <<>>
    /\ wordlist = <<>>
    /\ IdleRest

KyReturns ==
    /\ pc = "ky_call"
    /\ _get_word_from_kentucky(page).status = "returned"
    /\ \E defs \in _get_word_from_kentucky(page).deflists :
          lookup' = [status |-> "returned", error |-> NoError,
                     entries |-> _get_word_from_kentucky(page).entries,
                     extracted |-> _get_word_from_kentucky(page).extracted,
                     ky |-> KyRecord(_get_word_from_kentucky(page), defs)]
    /\ pc' = "ky_returned"
    /\ UNCHANGED <<text, dictionaries, browserAvailable, wiktSite, kySite, wordlist, keys,
                   wiktLookups, kyLookups, browser, sessions, error, page>>

KyRaises ==
    /\ pc = "ky_call"
    /\ _get_word_from_kentucky(page).status = "raised"
    /\ lookup' = [status |-> "raised", error |-> _get_word_from_kentucky(page).error,
                  entries |-> _get_word_from_kentucky(page).entries,
                  extracted |-> <<>>, ky |-> NoKyVal]
    /\ pc' = "ky_raised"
    /\ UNCHANGED <<text, dictionaries, browserAvailable, wiktSite, kySite, wordlist, keys,
                   wiktLookups, kyLookups, browser, sessions, error, page>>

NextKy == KyReturns \/ KyRaises

SpecKy == InitKy /\ [][NextKy]_vars

\* ------------------------------------------------------------------------
\* Tokenizer specification: initialize_wordlist applied to every text over
\* Chars of length at most MaxTextLen

Chars == {"a", "b", " ", "NL", ".", "EMDASH", "1", "NUL"}

Texts == SeqsUpTo(Chars, MaxTextLen)


InitTok ==
    /\ text \in Texts
    /\ pc = "tokenize"
    /\ wordlist = <<>>
    /\ page = NoPage
    /\ lookup = NoLookup
    /\ IdleRest

Tokenize ==
    /\ pc = "tokenize"
    /\ wordlist' = initialize_wordlist(text)
    /\ pc' = "tokenized"
    /\ UNCHANGED <<text, dictionaries, browserAvailable, wiktSite, kySite, keys,
                   wiktLookups, kyLookups, browser, sessions, error, page, lookup>>

NextTok == Tokenize

SpecTok == InitTok /\ [][NextTok]_vars

\* ------------------------------------------------------------------------
\* Orchestrator specification: main(text, dictionaries) against a
\* structured-dictionary site and an HTML-dictionary site that answer a word
\* by its first letter

PipeChars == {"a", "b", " "}
PipeTexts == SeqsUpTo(PipeChars, MaxPipeTextLen)

GoodHeader == <<"l", " ", "DOT", " ", "(", "t", ")", "NBSP", "m", ",", " ", "plural", " ", "p">>

GoodEntry ==
    [pronunciations |-> [hasText |-> TRUE, text |-> <<"pr">>],
     definitions |-> <<[text |-> <<GoodHeader, <<"d">>>>]>>]

\* the header of this entry has no middle dot
ShapelessEntry ==
    [pronunciations |-> [hasText |-> TRUE, text |-> <<"pr">>],
     definitions |-> <<[text |-> <<<<"l">>, <<"d">>>>]>>]

\* what parser.fetch does: raise, or return a list of entries
WiktAnswers ==
    {[raises |-> TRUE, entries |-> <<>>],
     [raises |-> FALSE, entries |-> <<>>],
     [raises |-> FALSE, entries |-> <<GoodEntry>>],
     [raises |-> FALSE, entries |-> <<ShapelessEntry>>]}

GoodPage == PageOf("Label", TRUE, "Label", TRUE, TRUE, <<BaseGm>>)
\* the first grammar span is preceded by something else than the label
MislabelledPage == PageOf("Other", TRUE, "Label", TRUE, TRUE, <<BaseGm>>)
\* no label on the page and no third previous sibling
UnlabelledPage == PageOf("None", FALSE, "Label", TRUE, TRUE, <<BaseGm>>)

PipePages == {GoodPage, MislabelledPage, UnlabelledPage}

Letters == {"a", "b"}

WiktFetch(word) == wiktSite[Head(word)]
PageFor(word) == kySite[Head(word)]

Init ==
    /\ text \in PipeTexts
    /\ dictionaries \in SUBSET {"wiktionary", "kentucky"}
    /\ browserAvailable \in BOOLEAN
    /\ wiktSite \in [Letters -> WiktAnswers]
    /\ kySite \in [Letters -> PipePages]
    /\ pc = "main"
    /\ wordlist = <<>>
    /\ keys = <<>>
    /\ wiktLookups = <<>>
    /\ kyLookups = <<>>
    /\ browser = "none"
    /\ sessions = 0
    /\ error = NoError
    /\ page = NoPage
    /\ lookup = NoLookup

AfterWiktionary == IF "kentucky" \in dictionaries THEN "ky_open" ELSE "done"

\* lines 248-249; keys is the iteration order of the new dict
MainInitialize ==
    /\ pc = "main"
    /\ wordlist' = initialize_wordlist(text)
    /\ keys' \in ListsOf(DOMAIN initialize_wordlist(text))
    /\ pc' = IF "wiktionary" \in dictionaries THEN "wikt_loop" ELSE AfterWiktionary
    /\ UNCHANGED <<text, dictionaries, browserAvailable, wiktSite, kySite,
                   wiktLookups, kyLookups, browser, sessions, error, page, lookup>>

\* lines 36-63, one iteration that reaches line 63
WiktIteration ==
    /\ pc = "wikt_loop"
    /\ Len(wiktLookups) < Len(keys)
    /\ LET word == keys[Len(wiktLookups) + 1]
           wikt == WiktFetch(word)
       IN /\ ~wikt.raises
          /\ NormalizeError(wikt.entries) = "none"
          /\ wiktLookups' = Append(wiktLookups, word)
          /\ wordlist' = AttachWiktionary(wordlist, word, Normalized(wikt.entries))
    /\ UNCHANGED <<text, dictionaries, browserAvailable, wiktSite, kySite, keys, pc,
                   kyLookups, browser, sessions, error, page, lookup>>

\* line 38: parser.fetch raises; the exception leaves main
WiktFetchRaises ==
    /\ pc = "wikt_loop"
    /\ Len(wiktLookups) < Len(keys)
    /\ LET word == keys[Len(wiktLookups) + 1]
       IN /\ WiktFetch(word).raises
          /\ wiktLookups' = Append(wiktLookups, word)
          /\ error' = [kind |-> "FetchError", msg |-> "fetch", word |-> None]
    /\ pc' = "failed"
    /\ UNCHANGED <<text, dictionaries, browserAvailable, wiktSite, kySite, keys,
                   wordlist, kyLookups, browser, sessions, page, lookup>>

\* lines 39-62: the normalisation raises; the exception leaves main
WiktNormalizeRaises ==
    /\ pc = "wikt_loop"
    /\ Len(wiktLookups) < Len(keys)
    /\ LET word == keys[Len(wiktLookups) + 1]
           wikt == WiktFetch(word)
       IN /\ ~wikt.raises
          /\ NormalizeError(wikt.entries) # "none"
          /\ wiktLookups' = Append(wiktLookups, word)
          /\ error' = [kind |-> NormalizeError(wikt.entries), msg |-> "normalize",
                       word |-> None]
    /\ pc' = "failed"
    /\ UNCHANGED <<text, dictionaries, browserAvailable, wiktSite, kySite, keys,
                   wordlist, kyLookups, browser, sessions, page, lookup>>

\* line 64 and line 251
WiktReturn ==
    /\ pc = "wikt_loop"
    /\ Len(wiktLookups) = Len(keys)
    /\ pc' = AfterWiktionary
    /\ UNCHANGED <<text, dictionaries, browserAvailable, wiktSite, kySite, keys,
                   wordlist, wiktLookups, kyLookups, browser, sessions, error,
                   page, lookup>>

\* lines 185-186: the browser starts
KyOpen ==
    /\ pc = "ky_open"
    /\ browserAvailable
    /\ browser' = "open"
    /\ sessions' = sessions + 1
    /\ pc' = "ky_loop"
    /\ UNCHANGED <<text, dictionaries, browserAvailable, wiktSite, kySite, keys,
                   wordlist, wiktLookups, kyLookups, error, page, lookup>>

\* line 185: webdriver.Chrome() raises; the exception leaves main
KyOpenRaises ==
    /\ pc = "ky_open"
    /\ ~browserAvailable
    /\ error' = [kind |-> "WebDriverException", msg |-> "chrome", word |-> None]
    /\ pc' = "failed"
    /\ UNCHANGED <<text, dictionaries, browserAvailable, wiktSite, kySite, keys,
                   wordlist, wiktLookups, kyLookups, browser, sessions, page, lookup>>

\* lines 187-188, one iteration whose lookup returns
KyIteration ==
    /\ pc = "ky_loop"
    /\ Len(kyLookups) < Len(keys)
    /\ LET word == keys[Len(kyLookups) + 1]
           res == _get_word_from_kentucky(PageFor(word))
       IN /\ res.status = "returned"
          /\ kyLookups' = Append(kyLookups, word)
          /\ \E defs \in res.deflists :
                wordlist' = AttachKentucky(wordlist, word, KyRecord(res, defs))
    /\ UNCHANGED <<text, dictionaries, browserAvailable, wiktSite, kySite, keys, pc,
                   wiktLookups, browser, sessions, error, page, lookup>>

\* line 188: the lookup raises; the exception leaves main, nothing closes
\* the browser
KyLookupRaises ==
    /\ pc = "ky_loop"
    /\ Len(kyLookups) < Len(keys)
    /\ LET word == keys[Len(kyLookups) + 1]
           res == _get_word_from_kentucky(PageFor(word))
       IN /\ res.status = "raised"
          /\ kyLookups' = Append(kyLookups, word)
          /\ error' = res.error
    /\ pc' = "failed"
    /\ UNCHANGED <<text, dictionaries, browserAvailable, wiktSite, kySite, keys,
                   wordlist, wiktLookups, browser, sessions, page, lookup>>

\* line 189 and line 253
KyReturn ==
    /\ pc = "ky_loop"
    /\ Len(kyLookups) = Len(keys)
    /\ pc' = "done"
    /\ UNCHANGED <<text, dictionaries, browserAvailable, wiktSite, kySite, keys,
                   wordlist, wiktLookups, kyLookups, browser, sessions, error,
                   page, lookup>>

Next ==
    \/ MainInitialize
    \/ WiktIteration
    \/ WiktFetchRaises
    \/ WiktNormalizeRaises
    \/ WiktReturn
    \/ KyOpen
    \/ KyOpenRaises
    \/ KyIteration
    \/ KyLookupRaises
    \/ KyReturn

Spec == Init /\ [][Next]_vars

\* ------------------------------------------------------------------------
\* Properties of the tokenizer

StrictlyIncreasing(s) == \A i \in 1..(Len(s) - 1) : s[i] < s[i + 1]

RECURSIVE SumCounts(_, _)
SumCounts(wl, ws) ==
    IF ws = {} THEN 0
    ELSE LET k == CHOOSE x \in ws : TRUE
         IN wl[k].count + SumCounts(wl, ws \ {k})

\* C7: the keys of the returned wordlist are exactly the distinct non-empty
\* tokens of the stripped, space-split text, and each key's index is the
\* strictly increasing list of all 0-based positions of that token.
C7_KeysAndIndexExact ==
    pc = "tokenized" =>
        LET toks == Tokens(text)
        IN /\ DOMAIN wordlist = Range(toks)
           /\ \A w \in DOMAIN wordlist :
                 /\ StrictlyIncreasing(wordlist[w].index)
                 /\ \A p \in 0..(Len(toks) - 1) :
                       (p \in Range(wordlist[w].index)) <=> (toks[p + 1] = w)
                 /\ Range(wordlist[w].index) \subseteq 0..(Len(toks) - 1)

\* C8: each word's count is the length of its index list and the counts add
\* up to the number of tokens of the stripped, space-split text.
C8_CountsSumToTokens ==
    pc = "tokenized" =>
        /\ \A w \in DOMAIN wordlist : wordlist[w].count = Len(wordlist[w].index)
        /\ SumCounts(wordlist, DOMAIN wordlist) = Len(Tokens(text))
        /\ \A p \in 0..(Len(Tokens(text)) - 1) :
              Cardinality({w \in DOMAIN wordlist : p \in Range(wordlist[w].index)}) = 1

C8_Witness ==
    /\ pc = "tokenized"
    /\ Cardinality(DOMAIN wordlist) = 2
    /\ \E w \in DOMAIN wordlist : wordlist[w].count = 2

\* ------------------------------------------------------------------------
\* Properties of the extractor

\* the page passes lines 92-104: both asserts hold and the entry list exists
ReachesMatching(p) ==
    /\ AssertLabel(p.translPrev3, p.hasConverting) = "ok"
    /\ AssertLabel(p.stemPrev3, p.hasBaseLabel) = "ok"
    /\ p.hasUl

\* C5: every field of every entry container is extracted best-effort: a
\* missing sub-element or sibling makes that field None, the entry is still
\* emitted and the lookup does not abort.
C5_FieldMissIsAbsent ==
    (pc \in {"ky_returned", "ky_raised"} /\ ReachesMatching(page)
        /\ EntriesError(page) = "none") =>
        /\ lookup.status = "returned"
        /\ Len(lookup.extracted) = Len(EntriesOf(page))
        /\ \A i \in 1..Len(lookup.extracted) :
              LET e == EntriesOf(page)[i]
              IN /\ e.lexeme = None => lookup.extracted[i][6] = None
                 /\ e.definition = None => lookup.extracted[i][2] = None
                 /\ ~e.grammar.found =>
                       lookup.extracted[i][1] = None /\ lookup.extracted[i][5] = None
                 /\ (e.participle.found /\ e.participle.next.kind = "none") =>
                       lookup.extracted[i][4] = None

\* C6: when no goodmatch span survives the two filters, the entry containers
\* are the parents of all goodmatch spans of the entry list, and the list of
\* extracted entries is non-empty when the entry list has a goodmatch span.
C6_FallbackNonEmpty ==
    (pc \in {"ky_returned", "ky_raised"} /\ ReachesMatching(page)
        /\ Len(SurvivingMatches(page)) = 0) =>
        /\ lookup.entries = [i \in 1..Len(page.gms) |-> page.gms[i].parent]
        /\ Len(page.gms) >= 1 =>
              (lookup.status = "returned" /\ Len(lookup.ky.definitions) >= 1)

\* C9: the definitions list of a returned record has no two equal records,
\* and every extracted 6-tuple appears in it exactly once.
C9_DefinitionsUnique ==
    pc = "ky_returned" =>
        LET defs == lookup.ky.definitions
        IN /\ \A i, j \in 1..Len(defs) : defs[i] = defs[j] => i = j
           /\ \A k \in 1..Len(lookup.extracted) :
                 Cardinality({i \in 1..Len(defs) :
                                defs[i] = DefinitionRecord(lookup.extracted[k])}) = 1
           /\ \A i \in 1..Len(defs) :
                 \E k \in 1..Len(lookup.extracted) :
                    defs[i] = DefinitionRecord(lookup.extracted[k])

C9_Witness ==
    /\ pc = "ky_returned"
    /\ Len(lookup.extracted) >= 2
    /\ lookup.extracted[1] = lookup.extracted[2]
    /\ Len(lookup.ky.definitions) = 1

\* ------------------------------------------------------------------------
\* Properties of the lookup phases and of main

Terminated == pc \in {"done", "failed"}

\* C1: the HTML-lookup phase acquires exactly one browser session and no
\* terminal state leaves it open, whether the phase ended normally or a
\* per-word lookup failed.
C1_SessionClosedOnExit ==
    /\ sessions <= 1
    /\ (Terminated /\ sessions >= 1) => browser = "closed"

\* the structured-dictionary phase has ended, normally or not
WiktPhaseOver ==
    /\ "wiktionary" \in dictionaries
    /\ pc \in {"ky_open", "ky_loop", "done", "failed"}

WiktAnswerGood(word) ==
    ~WiktFetch(word).raises /\ NormalizeError(WiktFetch(word).entries) = "none"

\* C2: a failing fetch or normalisation of one word does not abort the batch:
\* every word is still looked up, and every word whose lookup does not fail
\* gets its wiktionary field.
C2_BatchSurvivesFailure ==
    WiktPhaseOver =>
        \A w \in DOMAIN wordlist :
            /\ w \in Range(wiktLookups)
            /\ WiktAnswerGood(w) => wordlist[w].wiktionary.has

\* C3: when the browser cannot be started, the run fails before any partial
\* work: no structured-dictionary lookup was made and no word entry carries
\* a lookup field.
C3_FailFastBeforeWork ==
    (pc = "failed" /\ error.kind = "WebDriverException") =>
        /\ wiktLookups = <<>>
        /\ \A w \in DOMAIN wordlist :
              ~wordlist[w].wiktionary.has /\ ~wordlist[w].kentucky.has

\* the first grammar span or the first goodmatch span is missing or is not
\* preceded by its label
ViolatesMarkupContract(p) == p.translPrev3 # "Label" \/ p.stemPrev3 # "Label"

\* C4: a page that violates the markup contract makes the lookup raise an
\* error of a distinct kind that names the word, the batch stops and the
\* word gets no kentucky record.
C4_ContractViolationIsFatal ==
    \A i \in 1..Len(kyLookups) :
        ViolatesMarkupContract(PageFor(kyLookups[i])) =>
            /\ pc = "failed"
            /\ i = Len(kyLookups)
            /\ error.kind = "MarkupContractViolation"
            /\ error.word = kyLookups[i]
            /\ ~wordlist[kyLookups[i]].kentucky.has

\* a step of a lookup phase leaves the keys and the tokenizer's fields alone,
\* and leaves the other source's field alone
FrameStep ==
    pc # "main" =>
        /\ DOMAIN wordlist' = DOMAIN wordlist
        /\ \A w \in DOMAIN wordlist :
              /\ wordlist'[w].index = wordlist[w].index
              /\ wordlist'[w].count = wordlist[w].count
              /\ wordlist'[w].frequency = wordlist[w].frequency
              /\ pc = "wikt_loop" => wordlist'[w].kentucky = wordlist[w].kentucky
              /\ pc \in {"ky_open", "ky_loop"} =>
                    wordlist'[w].wiktionary = wordlist[w].wiktionary

\* the returned wordlist is determined field by field: the tokenizer's
\* fields by the text, each source's field by that source's answer alone
\* (the order of a definitions list apart)
DoneDetermined ==
    pc = "done" =>
        /\ DOMAIN wordlist = DOMAIN initialize_wordlist(text)
        /\ \A w \in DOMAIN wordlist :
              /\ wordlist[w].index = initialize_wordlist(text)[w].index
              /\ wordlist[w].count = initialize_wordlist(text)[w].count
              /\ wordlist[w].frequency = initialize_wordlist(text)[w].frequency
              /\ wordlist[w].wiktionary =
                    IF "wiktionary" \in dictionaries
                    THEN [has |-> TRUE, val |-> Normalized(WiktFetch(w).entries)]
                    ELSE NoWikt
              /\ wordlist[w].kentucky.has = ("kentucky" \in dictionaries)
              /\ wordlist[w].kentucky.has =>
                    LET res == _get_word_from_kentucky(PageFor(w))
                        ky == wordlist[w].kentucky.val
                    IN /\ ky.transliteration = res.transliteration
                       /\ ky.stem = res.stem
                       /\ Range(ky.definitions) =
                             {DefinitionRecord(t) : t \in Range(res.extracted)}

====
